---------------------------- MODULE Spec2Model ----------------------------
(***************************************************************************)
(* Single-client media relay servers of NlxVideoTransm:                    *)
(*   - the video server           (src/video_stream/server.cpp)            *)
(*   - the ALSA audio server      (src/audio_stream/server.cpp)            *)
(*   - the PortAudio audio server (src/unnamed/part_000,                   *)
(*                                 src/audio_stream/main.cpp)              *)
(* Each server is a process of its own and has its own specification       *)
(* over the same kernel-level state: the descriptor table, the listen      *)
(* queue, the accepted connections and what was delivered on them.         *)
(*   SpecVideo        video server started without --serial                *)
(*   SpecVideoSerial  video server started with --serial                   *)
(*   SpecFraming      video server, one client, delivered bytes recorded   *)
(*   SpecPa           PortAudio audio server                               *)
(*   SpecAlsa         ALSA audio server                                    *)
(* Session s is the forwarding thread started for the s-th accepted        *)
(* connection; connection s is the TCP connection it was started for.      *)
(***************************************************************************)
EXTENDS Integers, Sequences, FiniteSets, TLC

(***************************************************************************)
(* Bounds of the model.                                                    *)
(***************************************************************************)
MaxConn == 3      \* connections accepted over a run
MaxSessions == 4  \* connections accepted over a run of descriptor reuse
MaxFd == 2        \* descriptor numbers accept() can hand out
MaxFrames == 2    \* units the capture source delivers over a run
MaxAlsaConn == 2  \* connections made to the ALSA server over a run
MaxArgs == 2      \* options on the command line

Sessions == 1..MaxSessions
FDs == 1..MaxFd
NoFd == -1        \* the "-1" of current_client and of a failed accept
NoConn == 0       \* descriptor table entry of a closed descriptor
NoByte == -1      \* no byte waiting in the serial device
NoStatus == -1    \* the process has not exited

(***************************************************************************)
(* Program constants.                                                      *)
(***************************************************************************)
SizeFieldLen == 4         \* sizeof(uint32_t size)
TriggerByte == 83         \* 'S'
Backlog == 1              \* listen(server_fd, 1): connections queued at once
PayloadLens == {1, 2}     \* buffer.size() after imencode (model values)
JpegByte == 256           \* an opaque byte of the encoded image
SerialBytes == {TriggerByte, 65}
SampleBytes == 2          \* sizeof(int16_t)
BlockBytes == 2048        \* buffer_size; FRAMES_PER_BUFFER int16_t samples
max_retries == 5          \* const int max_retries = 5
DefaultBaud == 115200     \* int baudrate = 115200
SupportedBauds == {9600, 19200, 38400, 57600, 115200}
ExitOk == 0               \* return 0
ExitFailure == 255        \* return -1, as the parent process sees it
ExitAbort == 134          \* std::terminate: abort, SIGABRT
AlsaFailure == 1          \* return 1
MainThread == 0           \* the thread that runs main
NoThread == -1

VARIABLES
    fdtab,            \* kernel: descriptor number -> connection (NoConn: closed)
    nconn,            \* kernel: connections accepted so far
    pending,          \* kernel: connections waiting in the listen queue
    peer,             \* kernel: open connections whose remote end is still there
    tap,              \* connections whose delivered bytes are recorded
    stream,           \* bytes delivered on each recorded connection
    cap_live,         \* the capture source is a live device: it never runs
                      \* out of frames (FALSE: it delivers MaxFrames units)
    argv,             \* command line arguments getopt_long has not yet seen
    serial,           \* std::string serial (--serial)
    baudrate,         \* int baudrate (--baudrate)
    usage,            \* the usage message has been printed
    exit_status,      \* exit status of the process (NoStatus: none yet)
    running,          \* std::atomic<bool> running
    current_client,   \* int current_client
    snapshot_signal,  \* std::atomic<bool> snapshot_signal
    serial_fd,        \* int serial_fd (-1: no serial reader thread)
    serial_rx,        \* byte waiting in the serial device (NoByte: none)
    cap_state,        \* capture handle: "unopened" | "open" | "closed"
    cap_res,          \* capture source resolution: "normal" | "snap"
    frames,           \* units the capture source has delivered
    pc,               \* position of the accept loop (main)
    client_fd,        \* main's local: descriptor returned by accept
    prev_fd,          \* main's load of current_client in the test at line 335
    h_pc,             \* position of each forwarding thread
    client_socket,    \* handle_client's parameter client_socket
    buffer,           \* handle_client's buffer.size() of the encoded frame
    nbytes,           \* audio: bytes delivered on each recorded connection
    retries,          \* ALSA handle_client's local retries
    joinable,         \* ALSA main's client_thread.joinable()
    cleaned_up,       \* ALSA std::atomic<bool> cleaned_up
    sig_pc,           \* ALSA SIGINT handler: "none" | "test" | "body" | "done"
    sig_thread,       \* thread the handler runs on (NoThread: not running)
    unit,             \* number of the captured unit each thread holds
    last              \* number of the last unit sent on each connection

kern == << fdtab, nconn, pending, peer >>
boot == << argv, serial, baudrate, usage >>
sigv == << sig_pc, sig_thread >>
ord == << unit, last >>
hist == << tap, stream, cap_live, ord, sigv, boot, exit_status >>
glob == << running, current_client >>
dev == << serial_fd, serial_rx, cap_state >>
snap == << snapshot_signal, cap_res, dev >>
mainv == << pc, client_fd, prev_fd >>
thr == << h_pc, client_socket, buffer >>
aud == << nbytes, retries, joinable, cleaned_up >>

vars == << kern, hist, glob, snap, frames, mainv, thr, aud >>

(***************************************************************************)
(* Kernel: descriptors and sockets.                                        *)
(***************************************************************************)
\* accept() returns the lowest-numbered descriptor that is not open
FreeFds(tab) == { f \in FDs : tab[f] = NoConn }
LowestFree(tab) == CHOOSE f \in FreeFds(tab) : \A g \in FreeFds(tab) : f <= g

\* the connection a descriptor number names now (NoConn if it names none)
ConnOf(tab, fd) == IF fd \in FDs THEN tab[fd] ELSE NoConn

\* close(fd): releases the number; EBADF when it names nothing
CloseFd(tab, fd) == IF fd \in FDs THEN [tab EXCEPT ![fd] = NoConn] ELSE tab

\* one close(fd) call: the connection the number names, if any, is gone
DoClose(fd) ==
    /\ fdtab' = CloseFd(fdtab, fd)
    /\ peer' = peer \ {ConnOf(fdtab, fd)}

\* a successful accept(): the head of the listen queue gets the lowest free
\* descriptor number
DoAccept ==
    /\ pending > 0
    /\ FreeFds(fdtab) # {}
    /\ pending' = pending - 1
    /\ nconn' = nconn + 1
    /\ fdtab' = [fdtab EXCEPT ![LowestFree(fdtab)] = nconn + 1]
    /\ peer' = peer \cup {nconn + 1}
    /\ client_fd' = LowestFree(fdtab)

\* a failed accept(): no descriptor left, or the queued connection was
\* aborted by its peer
AcceptFails ==
    /\ client_fd' = NoFd
    /\ \/ /\ FreeFds(fdtab) = {}
          /\ pending' = pending
       \/ /\ pending > 0
          /\ pending' = pending - 1
    /\ UNCHANGED << aud, fdtab, nconn, peer >>

\* the process has ended: main has returned ("exited") or a signal with the
\* default action has terminated it ("killed")
ProcessEnded == pc \in {"exited", "killed"}

\* send() can accept fewer bytes than requested; it never accepts none
SendCounts(n) == { n, (n + 1) \div 2 }

\* send() fails on a closed descriptor and on a connection the peer has left
SendFails(fd) == ConnOf(fdtab, fd) = NoConn \/ ConnOf(fdtab, fd) \notin peer

\* a send on an open connection the peer has left: without MSG_NOSIGNAL it
\* raises SIGPIPE when the peer closed its end (EPIPE) and only returns an
\* error when the connection was reset (ECONNRESET)
PeerGone(fd) == ConnOf(fdtab, fd) # NoConn /\ ConnOf(fdtab, fd) \notin peer

(***************************************************************************)
(* Video server: framing.                                                  *)
(***************************************************************************)
\* htonl(buffer.size()) as it lies in memory: the low 32 bits of the value,
\* most significant byte first
htonl(n) == << (n \div 16777216) % 256,
               (n \div 65536) % 256,
               (n \div 256) % 256,
               n % 256 >>

\* buffer.data(): n opaque bytes of encoded image
Payload(n) == [ i \in 1..n |-> JpegByte ]

\* the first k bytes of a send's data
Prefix(data, k) == SubSeq(data, 1, k)

(***************************************************************************)
(* Capture source.                                                         *)
(***************************************************************************)
\* a capture read can return a unit: a live device always has one
CanCapture == cap_live \/ frames < MaxFrames

\* the count of delivered units, which stops counting at MaxFrames
Counted(f) == IF f < MaxFrames THEN f + 1 ELSE f

\* Captured units are numbered in the order the capture source delivers
\* them.  The numbers are kept only in specifications that start Tracked;
\* elsewhere unit and last stay empty.
Untracked == unit = << >> /\ last = << >>

Tracked ==
    /\ unit = [s \in Sessions |-> 0]
    /\ last = [c \in Sessions |-> 0]

\* the read of thread s returns the next unit of the capture source
TakeUnit(s) ==
    unit' = IF unit = << >> THEN unit ELSE [unit EXCEPT ![s] = frames + 1]

\* thread s holds no unit any more
DropUnit(s) ==
    unit' = IF unit = << >> THEN unit ELSE [unit EXCEPT ![s] = 0]

\* the unit thread s holds goes out on the connection descriptor fd names
SendUnit(s, fd) ==
    last' = IF last = << >> \/ ConnOf(fdtab, fd) = NoConn
            THEN last
            ELSE [last EXCEPT ![ConnOf(fdtab, fd)] = unit[s]]

(***************************************************************************)
(* Environment.                                                            *)
(***************************************************************************)
\* positions of main before the server socket listens
StartupPcs ==
    {"args", "opencap", "serial", "socket", "host", "bind", "listen",
     "hwparams", "prepare", "sockopt", "painit", "format", "startstream"}

\* a client connects: one more connection in the listen queue
Connect(limit) ==
    /\ ~ProcessEnded
    /\ pc \notin StartupPcs
    /\ pending < Backlog
    /\ nconn + pending < limit
    /\ pending' = pending + 1
    /\ UNCHANGED << aud, fdtab, nconn, peer, hist, glob, snap, frames, mainv,
                    thr >>

\* the remote end of an accepted connection goes away
Disconnect(c) ==
    /\ ~ProcessEnded
    /\ c \in peer
    /\ peer' = peer \ {c}
    /\ UNCHANGED << aud, fdtab, nconn, pending, hist, glob, snap, frames, mainv,
                    thr >>

(***************************************************************************)
(* Video server: handle_client, src/video_stream/server.cpp:52-107.        *)
(* Positions of a forwarding thread:                                       *)
(*   "idle"      not started                                               *)
(*   "loop"      at the while condition, line 63                           *)
(*   "read"      inside cap.read, line 76                                  *)
(*   "snapread"  inside cap.read, line 68                                  *)
(*   "sendsize"  before send of the size field, line 87                    *)
(*   "senddata"  before send of the frame data, line 93                    *)
(*   "exitchk"   before the test at line 102                               *)
(*   "exitclr"   before the store at line 103                              *)
(*   "close"     before close(client_socket), line 105                     *)
(*   "done"      returned                                                  *)
(***************************************************************************)
Goto(s, p) == h_pc' = [h_pc EXCEPT ![s] = p]

\* lines 63-67: loop condition, snapshot test, switch to snapshot resolution
V_LoopHead(s) ==
    /\ ~ProcessEnded
    /\ h_pc[s] = "loop"
    /\ IF running /\ client_socket[s] = current_client
       THEN IF snapshot_signal
            THEN cap_res' = "snap" /\ Goto(s, "snapread")
            ELSE cap_res' = cap_res /\ Goto(s, "read")
       ELSE cap_res' = cap_res /\ Goto(s, "exitchk")
    /\ UNCHANGED << aud, kern, hist, glob, snapshot_signal, dev,
                    frames, mainv, client_socket, buffer >>

\* V_Read with the capture failure handled by "continue" instead of "break"
V_Read_Continue(s) ==
    /\ ~ProcessEnded
    /\ h_pc[s] = "read"
    /\ \/ /\ CanCapture
          /\ \E n \in PayloadLens : buffer' = [buffer EXCEPT ![s] = n]
          /\ frames' = Counted(frames)
          /\ TakeUnit(s)
          /\ Goto(s, "sendsize")
       \/ /\ Goto(s, "loop")
          /\ UNCHANGED << buffer, frames, unit >>
    /\ UNCHANGED << aud, kern, tap, stream, cap_live, last, sigv, boot,
                    exit_status, glob, snap, mainv, client_socket >>

\* lines 76-83: cap.read in the normal branch returns; the frame is encoded
V_Read(s) ==
    /\ ~ProcessEnded
    /\ h_pc[s] = "read"
    /\ \/ /\ CanCapture
          /\ \E n \in PayloadLens : buffer' = [buffer EXCEPT ![s] = n]
          /\ frames' = Counted(frames)
          /\ TakeUnit(s)
          /\ Goto(s, "sendsize")
       \/ /\ Goto(s, "exitchk")
          /\ UNCHANGED << buffer, frames, unit >>
    /\ UNCHANGED << aud, kern, tap, stream, cap_live, last, sigv, boot,
                    exit_status, glob, snap, mainv, client_socket >>

\* lines 68-74, 83: cap.read in the snapshot branch returns
V_SnapRead(s) ==
    /\ ~ProcessEnded
    /\ h_pc[s] = "snapread"
    /\ \/ /\ CanCapture
          /\ \E n \in PayloadLens : buffer' = [buffer EXCEPT ![s] = n]
          /\ frames' = Counted(frames)
          /\ TakeUnit(s)
          /\ snapshot_signal' = FALSE
          /\ cap_res' = "normal"
          /\ Goto(s, "sendsize")
       \/ /\ Goto(s, "exitchk")
          /\ UNCHANGED << buffer, frames, unit, snapshot_signal, cap_res >>
    /\ UNCHANGED << aud, kern, tap, stream, cap_live, last, sigv, boot,
                    exit_status, glob, dev, mainv, client_socket >>

\* a send that accepted k bytes of data: they are delivered on the
\* connection the descriptor names now
Deliver(fd, data, k) ==
    stream' = IF ConnOf(fdtab, fd) \in tap
              THEN [stream EXCEPT ![ConnOf(fdtab, fd)] = @ \o Prefix(data, k)]
              ELSE stream

\* lines 86-90: send of the 4-byte size field; only < 0 is a failure
V_SendSize(s) ==
    /\ ~ProcessEnded
    /\ h_pc[s] = "sendsize"
    /\ IF SendFails(client_socket[s])
       THEN /\ Goto(s, "exitchk")
            /\ buffer' = [buffer EXCEPT ![s] = 0]
            /\ DropUnit(s)
            /\ stream' = stream
       ELSE /\ Goto(s, "senddata")
            /\ UNCHANGED << buffer, unit >>
            /\ \E k \in SendCounts(SizeFieldLen) :
                  Deliver(client_socket[s], htonl(buffer[s]), k)
    /\ UNCHANGED << aud, kern, tap, cap_live, last, sigv, boot, exit_status,
                    glob, snap, frames, mainv, client_socket >>

\* lines 93-96: send of the frame data; only < 0 is a failure
V_SendData(s) ==
    /\ ~ProcessEnded
    /\ h_pc[s] = "senddata"
    /\ IF SendFails(client_socket[s])
       THEN /\ Goto(s, "exitchk")
            /\ UNCHANGED << stream, last >>
       ELSE /\ Goto(s, "loop")
            /\ SendUnit(s, client_socket[s])
            /\ \E k \in SendCounts(buffer[s]) :
                  Deliver(client_socket[s], Payload(buffer[s]), k)
    /\ buffer' = [buffer EXCEPT ![s] = 0]
    /\ DropUnit(s)
    /\ UNCHANGED << aud, kern, tap, cap_live, sigv, boot, exit_status,
                    glob, snap, frames, mainv, client_socket >>

\* line 102: if (client_socket == current_client)
V_ExitCheck(s) ==
    /\ ~ProcessEnded
    /\ h_pc[s] = "exitchk"
    /\ Goto(s, IF client_socket[s] = current_client THEN "exitclr"
                                                    ELSE "close")
    /\ UNCHANGED << aud, kern, hist, glob, snap, frames, mainv,
                    client_socket, buffer >>

\* line 103: current_client = -1
V_ExitClear(s) ==
    /\ ~ProcessEnded
    /\ h_pc[s] = "exitclr"
    /\ current_client' = NoFd
    /\ Goto(s, "close")
    /\ UNCHANGED << aud, kern, hist, running, snap, frames, mainv,
                    client_socket, buffer >>

\* V_Close that also releases the capture device
V_Close_ReleasesCapture(s) ==
    /\ ~ProcessEnded
    /\ h_pc[s] = "close"
    /\ DoClose(client_socket[s])
    /\ Goto(s, "done")
    /\ cap_state' = "closed"
    /\ UNCHANGED << aud, nconn, pending, hist, glob, snapshot_signal, cap_res,
                    serial_fd, serial_rx, frames, mainv, client_socket,
                    buffer >>

\* line 105: close(client_socket)
V_Close(s) ==
    /\ ~ProcessEnded
    /\ h_pc[s] = "close"
    /\ DoClose(client_socket[s])
    /\ Goto(s, "done")
    /\ UNCHANGED << aud, nconn, pending, hist, glob, snap, frames, mainv,
                    client_socket, buffer >>

(***************************************************************************)
(* Video server: handle_serial and signal_handler.                         *)
(***************************************************************************)
\* the peer on the serial line sends one of the bytes of B
SerialArrives(B) ==
    /\ ~ProcessEnded
    /\ serial_fd >= 0
    /\ serial_rx = NoByte
    /\ \E b \in B : serial_rx' = b
    /\ UNCHANGED << aud, kern, hist, glob, snapshot_signal, cap_res,
                    serial_fd, cap_state, frames, mainv, thr >>

\* V_Serial taking every byte for the trigger
V_Serial_AnyByte ==
    /\ ~ProcessEnded
    /\ serial_fd >= 0
    /\ running
    /\ IF serial_rx = NoByte
       THEN UNCHANGED << snapshot_signal, serial_rx >>
       ELSE /\ serial_rx' = NoByte
            /\ snapshot_signal' = TRUE
    /\ UNCHANGED << aud, kern, hist, glob, serial_fd, cap_state, cap_res,
                    frames, mainv, thr >>

\* lines 35-48: one read of the serial reader: a byte if one is waiting,
\* otherwise 0 or an error after the timeout
V_Serial ==
    /\ ~ProcessEnded
    /\ serial_fd >= 0
    /\ running
    /\ IF serial_rx = NoByte
       THEN UNCHANGED << snapshot_signal, serial_rx >>
       ELSE /\ serial_rx' = NoByte
            /\ snapshot_signal' = IF serial_rx = TriggerByte
                                  THEN TRUE
                                  ELSE snapshot_signal
    /\ UNCHANGED << aud, kern, hist, glob, serial_fd, cap_state, cap_res,
                    frames, mainv, thr >>

\* lines 173-175: SIGINT / SIGTERM
V_Signal ==
    /\ ~ProcessEnded
    /\ pc \notin {"args", "opencap", "serial"}  \* handler installed, 269-274
    /\ running
    /\ running' = FALSE
    /\ UNCHANGED << aud, kern, hist, current_client, snap, frames, mainv,
                    thr >>

(***************************************************************************)
(* Video server: the accept loop of main, lines 313-364.                   *)
(* Positions: "poll" (313-321), "accept" (324), "test" (335),              *)
(* "closeprev" (336), "clearprev" (337), "set" (342), "spawn" (345-347),   *)
(* "cleanup" (353-356), "finish" (357-364), "exited".                      *)
(***************************************************************************)
\* lines 313-321: loop condition; poll reports a connection in the queue
V_Poll ==
    /\ pc = "poll"
    /\ ~running \/ pending > 0
    /\ pc' = IF running THEN "accept" ELSE "cleanup"
    /\ UNCHANGED << aud, kern, hist, glob, snap, frames, client_fd,
                    prev_fd, thr >>

\* V_Accept with the accept failure handled by "break" instead of "continue"
V_Accept_FailBreaks ==
    /\ pc = "accept"
    /\ \/ DoAccept /\ pc' = "test"
       \/ AcceptFails /\ pc' = "cleanup"
    /\ UNCHANGED << aud, stream, hist, glob, snap, frames, prev_fd, thr >>

\* lines 324-328: accept; a failure goes back to the loop condition
V_Accept ==
    /\ pc = "accept"
    /\ \/ DoAccept /\ pc' = "test"
       \/ AcceptFails /\ pc' = "poll"
    /\ UNCHANGED << aud, stream, hist, glob, snap, frames, prev_fd, thr >>

\* line 335: if (current_client != -1)
V_Test ==
    /\ pc = "test"
    /\ IF current_client # NoFd
       THEN prev_fd' = current_client /\ pc' = "closeprev"
       ELSE prev_fd' = NoFd /\ pc' = "set"
    /\ UNCHANGED << aud, kern, hist, glob, snap, frames, client_fd, thr >>

\* line 336: close(current_client); current_client is a plain int written by
\* other threads, so the argument is the value loaded for the test at line
\* 335 or a second load
V_ClosePrev ==
    /\ pc = "closeprev"
    /\ \E fd \in {prev_fd, current_client} : DoClose(fd)
    /\ prev_fd' = NoFd
    /\ pc' = "clearprev"
    /\ UNCHANGED << aud, nconn, pending, hist, glob, snap, frames, client_fd,
                    thr >>

\* line 337: current_client = -1
V_ClearPrev ==
    /\ pc = "clearprev"
    /\ current_client' = NoFd
    /\ pc' = "set"
    /\ UNCHANGED << aud, kern, hist, running, snap, frames, client_fd,
                    prev_fd, thr >>

\* line 342: current_client = client_fd
V_Set ==
    /\ pc = "set"
    /\ current_client' = client_fd
    /\ pc' = "spawn"
    /\ UNCHANGED << aud, kern, hist, running, snap, frames, client_fd,
                    prev_fd, thr >>

\* lines 345-347: the forwarding thread of the new connection is started
V_Spawn ==
    /\ pc = "spawn"
    /\ h_pc' = [h_pc EXCEPT ![nconn] = "loop"]
    /\ client_socket' = [client_socket EXCEPT ![nconn] = client_fd]
    /\ client_fd' = NoFd
    /\ pc' = "poll"
    /\ UNCHANGED << aud, kern, hist, glob, snap, frames, prev_fd, buffer >>

\* lines 353-356: shutdown closes the current client
V_Cleanup ==
    /\ pc = "cleanup"
    /\ IF current_client # NoFd
       THEN /\ DoClose(current_client)
            /\ current_client' = NoFd
       ELSE UNCHANGED << fdtab, peer, current_client >>
    /\ pc' = "finish"
    /\ UNCHANGED << aud, nconn, pending, hist, running, snap, frames, client_fd,
                    prev_fd, thr >>

\* lines 357-364: serial reader joined, listening socket closed, capture
\* released, main returns and the process ends
V_Finish ==
    /\ pc = "finish"
    /\ cap_state' = "closed"
    /\ exit_status' = ExitOk
    /\ pc' = "exited"
    /\ UNCHANGED << aud, kern, tap, stream, cap_live, ord, sigv, boot, glob,
                    snapshot_signal, cap_res, serial_fd, serial_rx, frames,
                    client_fd, prev_fd, thr >>

\* lines 357-362, as a step of its own: serial reader joined, listening
\* socket closed, cap.release()
V_Release ==
    /\ pc = "finish"
    /\ cap_state' = "closed"
    /\ pc' = "return"
    /\ UNCHANGED << aud, kern, hist, glob, snapshot_signal, cap_res, serial_fd,
                    serial_rx, frames, client_fd, prev_fd, thr >>

\* lines 363-364: main returns and the process ends
V_Return ==
    /\ pc = "return"
    /\ exit_status' = ExitOk
    /\ pc' = "exited"
    /\ UNCHANGED << aud, kern, tap, stream, cap_live, ord, sigv, boot, glob, snap,
                    frames, client_fd, prev_fd, thr >>

(***************************************************************************)
(* Video server: startup of main, lines 194-305, and init_serial, lines    *)
(* 109-170.  Positions of main: "args" (221-243), "opencap" (246-254),     *)
(* "serial" (257-266), "socket" (276-280), "host" (286-292), "bind"        *)
(* (294-298), "listen" (301-305); then the accept loop.                    *)
(* A string is the sequence of its character codes.                        *)
(***************************************************************************)
IsDigit(c) == c \in 48..57

\* the value of the leading decimal digits of str, after the digits acc
RECURSIVE DigitsValue(_, _)
DigitsValue(str, acc) ==
    IF str = << >> \/ ~IsDigit(Head(str))
    THEN acc
    ELSE DigitsValue(Tail(str), acc * 10 + (Head(str) - 48))

\* std::stoi on a string without sign or leading space: it throws
\* std::invalid_argument when the string does not start with a digit and
\* converts the leading digits otherwise, ignoring what follows them
StoiThrows(str) == str = << >> \/ ~IsDigit(Head(str))
stoi(str) == DigitsValue(str, 0)

\* option values on the command line: "9600", "1234", "12a", "a", ""
ArgValues == { << 57, 54, 48, 48 >>, << 49, 50, 51, 52 >>, << 49, 50, 97 >>,
               << 97 >>, << >> }

\* options: "port" stands for every option read with std::stoi only
\* (--width, --height, --snaph, --snapw, --fps, --port), "bogus" for an
\* option that is not in long_options
ArgOpts == {"port", "baudrate", "serial", "help", "bogus"}

Args == [opt : ArgOpts, val : ArgValues]

ArgLists == UNION { [1..n -> Args] : n \in 0..MaxArgs }

\* main returns st during startup
ExitWith(st) ==
    /\ exit_status' = st
    /\ pc' = "exited"

\* lines 221-243: one iteration of the getopt_long loop
V_ParseArg ==
    /\ pc = "args"
    /\ IF argv = << >>
       THEN /\ pc' = "opencap"
            /\ UNCHANGED << argv, serial, baudrate, usage, exit_status >>
       ELSE /\ argv' = Tail(argv)
            /\ LET a == Head(argv)
                   throws == a.opt \in {"port", "baudrate"} /\ StoiThrows(a.val)
               IN  /\ serial' = IF a.opt = "serial" THEN a.val ELSE serial
                   /\ baudrate' = IF a.opt = "baudrate" /\ ~throws
                                  THEN stoi(a.val)
                                  ELSE baudrate
                   /\ usage' = (a.opt \in {"help", "bogus"} \/ throws)
                   /\ IF a.opt = "help"
                      THEN ExitWith(ExitOk)
                      ELSE IF a.opt = "bogus" \/ throws
                           THEN ExitWith(ExitFailure)
                           ELSE UNCHANGED << pc, exit_status >>
    /\ UNCHANGED << aud, kern, tap, stream, cap_live, ord, sigv, glob, snap, frames,
                    client_fd, prev_fd, thr >>

\* V_OpenCapture with a failed open that is only reported
V_OpenCapture_Continues ==
    /\ pc = "opencap"
    /\ pc' = "serial"
    /\ cap_state' \in {"open", cap_state}
    /\ UNCHANGED << aud, kern, tap, stream, cap_live, ord, sigv, boot, exit_status, glob,
                    snapshot_signal, cap_res, serial_fd, serial_rx, frames,
                    client_fd, prev_fd, thr >>

\* lines 246-254: the capture device is opened
V_OpenCapture ==
    /\ pc = "opencap"
    /\ \/ /\ cap_state' = "open"
          /\ pc' = "serial"
          /\ UNCHANGED exit_status
       \/ /\ cap_state' = cap_state
          /\ ExitWith(ExitFailure)
    /\ UNCHANGED << aud, kern, tap, stream, cap_live, ord, sigv, boot, glob,
                    snapshot_signal, cap_res, serial_fd, serial_rx, frames,
                    client_fd, prev_fd, thr >>

\* lines 257-266 and init_serial: with --serial the device is opened and
\* configured (open, tcgetattr, the baud rate switch and tcsetattr can
\* fail) and the serial reader thread is started
V_InitSerial ==
    /\ pc = "serial"
    /\ IF serial = << >>
       THEN /\ pc' = "socket"
            /\ UNCHANGED << serial_fd, exit_status >>
       ELSE \/ /\ baudrate \in SupportedBauds
               /\ serial_fd' = 3
               /\ pc' = "socket"
               /\ UNCHANGED exit_status
            \/ /\ serial_fd' = serial_fd
               /\ ExitWith(ExitFailure)
    /\ serial' = << >>
    /\ baudrate' = 0
    /\ UNCHANGED << aud, kern, tap, stream, cap_live, ord, sigv, argv, usage, glob,
                    snapshot_signal, cap_res, serial_rx, cap_state, frames,
                    client_fd, prev_fd, thr >>

\* the position after a step of the socket setup
AfterSetup(p) ==
    CASE p = "socket" -> "host"
      [] p = "host" -> "bind"
      [] p = "bind" -> "listen"
      [] p = "listen" -> "poll"

\* lines 276-305: socket, inet_pton, bind, listen; each failure returns
\* -1, which destroys serial_thread: if the serial reader was started the
\* thread is joinable and its destructor calls std::terminate
V_SocketSetup ==
    /\ pc \in {"socket", "host", "bind", "listen"}
    /\ \/ /\ pc' = AfterSetup(pc)
          /\ UNCHANGED exit_status
       \/ ExitWith(IF serial_fd >= 0 THEN ExitAbort ELSE ExitFailure)
    /\ UNCHANGED << aud, kern, tap, stream, cap_live, ord, sigv, boot, glob, snap,
                    frames, client_fd, prev_fd, thr >>

Startup ==
    \/ V_ParseArg
    \/ V_OpenCapture
    \/ V_InitSerial
    \/ V_SocketSetup

(***************************************************************************)
(* Video server: specification.                                            *)
(***************************************************************************)
InitKernel ==
    /\ fdtab = [f \in FDs |-> NoConn]
    /\ nconn = 0
    /\ pending = 0
    /\ peer = {}
    /\ stream = [c \in Sessions |-> << >>]

\* the globals and the threads when main starts
InitThreads ==
    /\ running = TRUE
    /\ current_client = NoFd
    /\ snapshot_signal = FALSE
    /\ cap_res = "normal"
    /\ serial_rx = NoByte
    /\ usage = FALSE
    /\ exit_status = NoStatus
    /\ sig_pc = "none"
    /\ sig_thread = NoThread
    /\ frames = 0
    /\ client_fd = NoFd
    /\ prev_fd = NoFd
    /\ h_pc = [s \in Sessions |-> "idle"]
    /\ client_socket = [s \in Sessions |-> NoFd]
    /\ buffer = [s \in Sessions |-> 0]
    /\ nbytes = [c \in Sessions |-> 0]
    /\ retries = [s \in Sessions |-> 0]
    /\ joinable = FALSE
    /\ cleaned_up = FALSE

\* the state when main enters its accept loop
InitProgram ==
    /\ InitThreads
    /\ cap_state = "open"
    /\ argv = << >>
    /\ serial = << >>
    /\ baudrate = 0

\* started without --serial: no serial reader thread (lines 258-266)
InitVideo ==
    /\ InitKernel /\ InitProgram /\ pc = "poll" /\ tap = {} /\ serial_fd = NoFd
    /\ cap_live = FALSE /\ Untracked

\* started without --serial on a live capture device
InitVideoLive ==
    /\ InitKernel /\ InitProgram /\ pc = "poll" /\ tap = {} /\ serial_fd = NoFd
    /\ cap_live = TRUE /\ Untracked

\* started with --serial
InitVideoSerial ==
    /\ InitKernel /\ InitProgram /\ pc = "poll" /\ tap = {} /\ serial_fd = 3
    /\ cap_live = FALSE /\ Untracked

\* the process is started with a command line
InitVideoBoot ==
    /\ InitKernel /\ InitThreads /\ pc = "args" /\ tap = {}
    /\ cap_live = FALSE /\ Untracked
    /\ cap_state = "unopened"
    /\ serial_fd = NoFd
    /\ argv \in ArgLists
    /\ serial = << >>
    /\ baudrate = DefaultBaud

\* one client, whose received bytes are recorded
InitFraming ==
    /\ InitKernel /\ InitProgram /\ pc = "poll" /\ tap = {1} /\ serial_fd = NoFd
    /\ cap_live = FALSE /\ Untracked

AcceptLoop ==
    \/ V_Poll
    \/ V_Accept
    \/ V_Test
    \/ V_Set
    \/ V_Spawn

Supersede ==
    \/ V_ClosePrev
    \/ V_ClearPrev

Shutdown ==
    \/ V_Signal
    \/ V_Cleanup
    \/ V_Finish

Forward(s) ==
    \/ V_LoopHead(s)
    \/ V_Read(s)
    \/ V_SendSize(s)
    \/ V_SendData(s)
    \/ V_ExitCheck(s)
    \/ V_ExitClear(s)
    \/ V_Close(s)

NextVideo ==
    \/ Connect(MaxConn)
    \/ \E c \in Sessions : Disconnect(c)
    \/ AcceptLoop
    \/ Supersede
    \/ Shutdown
    \/ \E s \in Sessions : Forward(s)

\* clients that connect one after the other and stay: no client
\* disconnects and no signal arrives
NextVideoReuse ==
    \/ Connect(MaxSessions)
    \/ AcceptLoop
    \/ Supersede
    \/ \E s \in Sessions : Forward(s)

NextVideoSerial ==
    \/ NextVideo
    \/ SerialArrives({TriggerByte})
    \/ V_Serial
    \/ \E s \in Sessions : V_SnapRead(s)

NextFraming ==
    \/ Connect(1)
    \/ Disconnect(1)
    \/ AcceptLoop
    \/ Forward(1)

SpecVideo == InitVideo /\ [][NextVideo]_vars

SpecVideoSerial == InitVideoSerial /\ [][NextVideoSerial]_vars

SpecFraming == InitFraming /\ [][NextFraming]_vars

SpecVideoReuse == InitVideo /\ [][NextVideoReuse]_vars

\* the first and the second connection
ClientA == 1
ClientB == 2

\* the video server from the start of main, with two clients
NextVideoBoot ==
    \/ Startup
    \/ Connect(ClientB)
    \/ \E c \in {ClientA, ClientB} : Disconnect(c)
    \/ SerialArrives(SerialBytes)
    \/ V_Serial
    \/ AcceptLoop
    \/ Supersede
    \/ Shutdown
    \/ \E s \in {ClientA, ClientB} : Forward(s) \/ V_SnapRead(s)

SpecVideoBoot == InitVideoBoot /\ [][NextVideoBoot]_vars

\* the video server with one client and the steps of main's shutdown code
\* interleaved with the forwarding thread
NextVideoShutdown ==
    \/ Connect(ClientA)
    \/ Disconnect(ClientA)
    \/ AcceptLoop
    \/ V_Signal
    \/ V_Cleanup
    \/ V_Release
    \/ V_Return
    \/ Forward(ClientA)

SpecVideoShutdown == InitVideo /\ [][NextVideoShutdown]_vars

\* the video server on a live capture device, every thread of which that can
\* take a step eventually takes one
MainStep == AcceptLoop \/ Supersede \/ V_Cleanup \/ V_Finish

SpecVideoLive ==
    /\ InitVideoLive
    /\ [][NextVideo]_vars
    /\ WF_vars(MainStep)
    /\ \A s \in Sessions : WF_vars(Forward(s))

(***************************************************************************)
(* Video server: the two-client scenario.  Client ClientA connects and is  *)
(* sent frames, then client ClientB connects; ClientB stays until it has   *)
(* been sent frames.  The capture source never fails and there is no       *)
(* shutdown.  Every thread that can take a step eventually takes one.      *)
(***************************************************************************)
\* connection c has been sent at least a size field and a byte of image
GotFrames(c) == Len(stream[c]) > SizeFieldLen

InitScenario ==
    /\ InitKernel /\ InitProgram /\ pc = "poll" /\ serial_fd = NoFd
    /\ tap = {ClientA, ClientB}
    /\ cap_live = FALSE /\ Untracked

\* this step is a capture read of session s that returned a failure
ReadFailed(s) ==
    /\ h_pc[s] \in {"read", "snapread"}
    /\ h_pc'[s] \notin {h_pc[s], "sendsize"}

ScenarioForward(s) == Forward(s) /\ ~ReadFailed(s)

ScenarioMain == AcceptLoop \/ Supersede

NextScenario ==
    \/ Connect(ClientB) /\ (nconn = 0 \/ GotFrames(ClientA))
    \/ Disconnect(ClientB) /\ GotFrames(ClientB)
    \/ ScenarioMain
    \/ ScenarioForward(ClientA)
    \/ ScenarioForward(ClientB)

SpecScenario ==
    /\ InitScenario
    /\ [][NextScenario]_vars
    /\ WF_vars(ScenarioMain)
    /\ WF_vars(ScenarioForward(ClientA))
    /\ WF_vars(ScenarioForward(ClientB))


(***************************************************************************)
(* Properties of the video server.                                         *)
(***************************************************************************)
\* connection c was accepted and its descriptor has been closed
ConnClosed(c) == c <= nconn /\ \A f \in FDs : fdtab[f] # c

\* session s is at a send on a descriptor that names an open connection
Sending(s) ==
    /\ h_pc[s] \in {"sendsize", "senddata"}
    /\ ConnOf(fdtab, client_socket[s]) # NoConn

\* this step is a send of session s that returned >= 0
SendReturnsOk(s) ==
    \/ h_pc[s] = "sendsize" /\ h_pc'[s] = "senddata"
    \/ h_pc[s] = "senddata" /\ h_pc'[s] = "loop"

\* a session newer than s has been put into current_client by the accept loop
NewerInstalled(s) ==
    \E t \in Sessions :
        /\ t > s
        /\ h_pc[t] # "idle" \/ (t = nconn /\ pc = "spawn")

\* C1: once the socket of a session has been closed (by the accept loop on
\* supersession), no send of that session's forwarding loop delivers data on
\* any connection: its next send fails or its loop has left.
C1_NoDataAfterSupersession ==
    [][\A s \in Sessions : ConnClosed(s) => ~SendReturnsOk(s)]_vars

\* C2: at most one forwarding loop is at a send on an open connection; in
\* particular no two loops send on the same connection.
C2_OneSender == Cardinality({ s \in Sessions : Sending(s) }) <= 1

\* C8: every close is issued on an open descriptor that names the socket it
\* is meant for: handle_client's close (line 105) closes the socket of its
\* own session, the accept loop's close (line 336) and the shutdown's close
\* (line 354) close an open socket, and line 336 not the one just accepted.
C8_ClosedExactlyOnce ==
    [][/\ \A s \in Sessions :
            (h_pc[s] = "close" /\ h_pc'[s] = "done")
                => ConnOf(fdtab, client_socket[s]) = s
       /\ (pc = "closeprev" /\ pc' = "clearprev")
                => (fdtab' # fdtab /\ ConnOf(fdtab', client_fd) = nconn)
       /\ (pc = "cleanup" /\ pc' = "finish" /\ current_client # NoFd)
                => ConnOf(fdtab, current_client) # NoConn]_vars

\* C9: once the accept loop has installed a newer session, the store at
\* line 103 of an older session's exit never changes current_client.
C9_ExitKeepsNewerSlot ==
    [][\A s \in Sessions :
          (h_pc[s] = "exitclr" /\ h_pc'[s] = "close" /\ NewerInstalled(s))
              => current_client' = current_client]_vars

\* C10: a failed capture read takes the session out of its loop to line 102;
\* from there current_client is set to -1 if it holds the session's
\* descriptor; a session that has returned has its socket closed; and the
\* accept loop is left only on shutdown, never because a session ended.
C10_CaptureFailure ==
    /\ [][\A s \in Sessions :
            /\ ReadFailed(s) => h_pc'[s] = "exitchk"
            /\ (h_pc[s] = "exitchk" /\ h_pc'[s] # "exitchk"
                   /\ client_socket[s] = current_client)
                  => h_pc'[s] = "exitclr"
            /\ (h_pc[s] = "exitclr" /\ h_pc'[s] # "exitclr")
                  => current_client' = NoFd
            /\ (h_pc[s] # "idle" /\ h_pc'[s] # h_pc[s]) => pc' = pc]_vars
    /\ [](\A s \in Sessions : h_pc[s] = "done" => ConnClosed(s))
    /\ [](pc \in {"cleanup", "finish", "exited"} => ~running)

\* C10 witness: session 1 ended on a capture failure and connection 2 is
\* being served.  No frame was ever read (so no send was attempted), there is
\* no shutdown, and connection 2 got the descriptor number of connection 1,
\* so session 1 had closed its socket, hence left its loop, before
\* connection 2 was accepted, while current_client still held its descriptor.
C10_Witness ==
    /\ running
    /\ frames = 0
    /\ h_pc[1] = "done"
    /\ nconn >= 2
    /\ client_socket[2] = client_socket[1]
    /\ current_client = client_socket[2]
    /\ h_pc[2] = "read"

\* no forwarding loop is live, no client is current, main is polling
ServerIdle ==
    /\ current_client = NoFd
    /\ \A s \in Sessions : h_pc[s] \in {"idle", "done"}
    /\ pc = "poll"

\* session s waits in cap.read for a frame beyond the bound of the model
CaptureExhausted(s) == h_pc[s] = "read" /\ frames = MaxFrames

\* C11: in the two-client scenario, once the forwarding thread of ClientB
\* has been started ClientB is eventually sent frames, and once ClientB has
\* disconnected the server is eventually idle again.
C11_Scenario ==
    /\ [](h_pc[ClientB] # "idle"
            => <>(GotFrames(ClientB) \/ CaptureExhausted(ClientB)))
    /\ []((nconn = ClientB /\ ClientB \notin peer)
            => <>(ServerIdle \/ CaptureExhausted(ClientB)))

\* this step is session s taking the snapshot branch (lines 65-67)
TakesSnapshot(s) == h_pc[s] = "loop" /\ h_pc'[s] = "snapread"

\* this step ends the snapshot branch of session s (lines 68-74)
EndsSnapshot(s) == h_pc[s] = "snapread" /\ h_pc'[s] # "snapread"

\* C12: one setting of the snapshot flag is taken by one iteration only: no
\* iteration takes the snapshot branch while another one is in it, and the
\* iteration that took it leaves the flag false, so that no later iteration
\* takes the branch for the same setting and no normal frame follows with
\* the flag still set.
C12_SnapshotConsumedOnce ==
    [][\A s \in Sessions :
          /\ TakesSnapshot(s)
                => \A t \in Sessions \ {s} : h_pc[t] # "snapread"
          /\ EndsSnapshot(s) => ~snapshot_signal']_vars

\* this step is a capture read of session s in the normal branch that
\* returned a frame (lines 76-83)
ReadsNormalFrame(s) == h_pc[s] = "read" /\ h_pc'[s] = "sendsize"

\* C13: every frame read in the non-snapshot branch is read while the
\* capture source is configured at normal resolution.
C13_NormalReadAtNormalResolution ==
    [][\A s \in Sessions : ReadsNormalFrame(s) => cap_res = "normal"]_vars

\* session s is inside a capture read
InCaptureRead(s) == h_pc[s] \in {"read", "snapread"}

\* C14: the capture source never has two threads inside a capture read at
\* the same time.
C14_OneCaptureReader ==
    Cardinality({ s \in Sessions : InCaptureRead(s) }) <= 1

\* session s is in its forwarding loop (lines 63-97)
InLoop(s) == h_pc[s] \in {"loop", "read", "snapread", "sendsize", "senddata"}

\* C15: a forwarding loop is left only on capture failure, on send failure,
\* on shutdown or when current_client is not its descriptor; and a session
\* that the accept loop has superseded eventually leaves its loop (unless
\* the process ends first).
C15_SupersededLeaves ==
    /\ [][\A s \in Sessions :
            /\ (h_pc[s] = "loop" /\ h_pc'[s] = "exitchk")
                  => (~running \/ client_socket[s] # current_client)
            /\ (Sending(s) /\ h_pc'[s] = "exitchk")
                  => SendFails(client_socket[s])
            /\ (InLoop(s) /\ ~InLoop(s)')
                  => (h_pc[s] \in {"loop", "sendsize", "senddata"}
                         \/ ReadFailed(s))]_vars
    /\ \A s \in Sessions :
          [](NewerInstalled(s) => <>(~InLoop(s) \/ pc = "exited"))

\* this step is an accept of the accept loop that failed: the queued
\* connection is gone without having been accepted, or (video server) the
\* loop is back at its condition
FailedAccept ==
    /\ pc = "accept"
    /\ nconn' = nconn
    /\ pending' < pending \/ pc' = "poll"

\* C19: a failed accept leaves the accept loop running, on its way to the
\* next accept attempt, and changes no session state: no descriptor is
\* closed, no thread is started or moved, current_client and running are
\* unchanged.
C19_FailedAcceptHarmless ==
    [][FailedAccept => /\ pc' \in {"poll", "accept"}
                       /\ fdtab' = fdtab
                       /\ peer' = peer
                       /\ h_pc' = h_pc
                       /\ client_socket' = client_socket
                       /\ current_client' = current_client
                       /\ running' = running]_vars

\* C19 witness: the accept loop is at an accept that must fail (no
\* descriptor is left) while the current session is at a send on its own
\* open connection
C19_Witness ==
    /\ running
    /\ pc = "accept"
    /\ pending > 0
    /\ FreeFds(fdtab) = {}
    /\ \E s \in Sessions : /\ h_pc[s] = "sendsize"
                            /\ client_socket[s] = current_client
                            /\ ConnOf(fdtab, current_client) = s
                            /\ s \in peer

\* this step starts a forwarding thread
StartsSession == \E s \in Sessions : h_pc[s] = "idle" /\ h_pc'[s] # "idle"

\* C20: once running is false the accept loop starts no further session and
\* eventually main completes; the shutdown leaves current_client at -1 with
\* the descriptor it held closed; and a forwarding loop that evaluates its
\* condition leaves its loop.
C20_Shutdown ==
    /\ [][~running => ~StartsSession]_vars
    /\ [][(pc = "cleanup" /\ pc' # "cleanup")
            => /\ current_client' = NoFd
               /\ ConnOf(fdtab', current_client) = NoConn]_vars
    /\ [][\A s \in Sessions :
            (~running /\ h_pc[s] = "loop" /\ h_pc'[s] # "loop")
                => h_pc'[s] = "exitchk"]_vars
    /\ (~running ~> pc = "exited")

(***************************************************************************)
(* Properties of the video framing.                                        *)
(***************************************************************************)
IsByte(b) == b \in 0..255

\* ntohl of a 4-byte size field as the receiver reads it
ntohl(b) == b[1] * 16777216 + b[2] * 65536 + b[3] * 256 + b[4]

\* b is a sequence of records (size field, then exactly that many image
\* bytes), the last of which may still be incomplete
RECURSIVE Framed(_)
Framed(b) ==
    IF Len(b) < SizeFieldLen
    THEN \A i \in 1..Len(b) : IsByte(b[i])
    ELSE /\ \A i \in 1..SizeFieldLen : IsByte(b[i])
         /\ b[1] < 128
         /\ LET n == ntohl(SubSeq(b, 1, SizeFieldLen))
                rest == SubSeq(b, SizeFieldLen + 1, Len(b))
            IN  IF Len(rest) <= n
                THEN \A i \in 1..Len(rest) : rest[i] = JpegByte
                ELSE /\ \A i \in 1..n : rest[i] = JpegByte
                     /\ Framed(SubSeq(rest, n + 1, Len(rest)))

\* C6: the bytes delivered on a connection are a concatenation of records,
\* each a 4-byte big-endian length followed by exactly that many payload
\* bytes (the record being sent may be incomplete).
C6_StreamFramed == \A c \in tap : Framed(stream[c])


(***************************************************************************)
(* PortAudio audio server: handle_client, src/unnamed/part_000:54-83       *)
(* (the same code is in src/audio_stream/main.cpp:240-269).                *)
(* Positions of a forwarding thread: "read" (inside Pa_ReadStream, line    *)
(* 59), "send" (line 67), "close" (line 81), "done".                       *)
(***************************************************************************)
\* a send that accepted k bytes of an audio block: they are delivered on
\* the connection the descriptor names now
DeliverBlock(fd, k) ==
    nbytes' = IF ConnOf(fdtab, fd) \in tap
              THEN [nbytes EXCEPT ![ConnOf(fdtab, fd)] = @ + k]
              ELSE nbytes

\* lines 59-64: Pa_ReadStream returns
P_Read(s) ==
    /\ h_pc[s] = "read"
    /\ \/ /\ CanCapture
          /\ frames' = Counted(frames)
          /\ TakeUnit(s)
          /\ Goto(s, "send")
       \/ /\ UNCHANGED << frames, unit >>
          /\ Goto(s, "close")
    /\ UNCHANGED << kern, tap, stream, cap_live, last, sigv, boot,
                    exit_status, glob, snap, mainv, client_socket,
                    buffer, aud >>

\* lines 67-72: send of one block; only < 0 is a failure
P_Send(s) ==
    /\ h_pc[s] = "send"
    /\ IF SendFails(client_socket[s])
       THEN /\ Goto(s, "close")
            /\ UNCHANGED << nbytes, last >>
       ELSE /\ Goto(s, "read")
            /\ SendUnit(s, client_socket[s])
            /\ \E k \in SendCounts(BlockBytes) :
                  DeliverBlock(client_socket[s], k)
    /\ DropUnit(s)
    /\ UNCHANGED << kern, tap, stream, cap_live, sigv, boot, exit_status, glob, snap, frames,
                    mainv, client_socket, buffer, retries, joinable,
                    cleaned_up >>

\* line 81: close(client_socket)
P_Close(s) ==
    /\ h_pc[s] = "close"
    /\ DoClose(client_socket[s])
    /\ Goto(s, "done")
    /\ UNCHANGED << nconn, pending, hist, glob, snap, frames, mainv,
                    client_socket, buffer, aud >>

(***************************************************************************)
(* PortAudio audio server: the accept loop of main, part_000:311-350.      *)
(* current_client is a local of main here.  Positions: "accept" (318),     *)
(* "closeprev" (332-338), "spawn" (341-342).                               *)
(***************************************************************************)
\* lines 318-322: blocking accept; a failure starts the loop again
P_Accept ==
    /\ pc = "accept"
    /\ \/ DoAccept /\ pc' = "closeprev"
       \/ AcceptFails /\ pc' = "accept"
    /\ UNCHANGED << hist, glob, snap, frames, prev_fd, thr, aud >>

\* lines 332-338: close the remembered descriptor, remember the new one
P_ClosePrev ==
    /\ pc = "closeprev"
    /\ IF current_client # NoFd
       THEN DoClose(current_client)
       ELSE UNCHANGED << fdtab, peer >>
    /\ current_client' = client_fd
    /\ pc' = "spawn"
    /\ UNCHANGED << nconn, pending, hist, running, snap, frames, client_fd,
                    prev_fd, thr, aud >>

\* lines 341-342: the forwarding thread of the new connection is started
P_Spawn ==
    /\ pc = "spawn"
    /\ h_pc' = [h_pc EXCEPT ![nconn] = "read"]
    /\ client_socket' = [client_socket EXCEPT ![nconn] = current_client]
    /\ client_fd' = NoFd
    /\ pc' = "accept"
    /\ UNCHANGED << kern, hist, glob, snap, frames, prev_fd, buffer, aud >>

\* the position after a step of the PortAudio server's startup
P_AfterSetup(p) ==
    CASE p = "painit" -> "format"
      [] p = "format" -> "opencap"
      [] p = "opencap" -> "startstream"
      [] p = "startstream" -> "socket"
      [] p = "socket" -> "host"
      [] p = "host" -> "bind"
      [] p = "bind" -> "listen"
      [] p = "listen" -> "accept"

\* lines 212-307: Pa_Initialize, Pa_IsFormatSupported, Pa_OpenStream,
\* Pa_StartStream, socket, inet_pton, bind, listen; each failure releases
\* what was acquired and returns -1
P_Startup ==
    /\ pc \in {"painit", "format", "opencap", "startstream", "socket", "host",
                "bind", "listen"}
    /\ \/ /\ pc' = P_AfterSetup(pc)
          /\ cap_state' = IF pc = "opencap" THEN "open" ELSE cap_state
          /\ UNCHANGED exit_status
       \/ /\ cap_state' = IF cap_state = "open" THEN "closed" ELSE cap_state
          /\ ExitWith(ExitFailure)
    /\ UNCHANGED << aud, kern, tap, stream, cap_live, ord, sigv, boot, glob,
                    snapshot_signal, cap_res, serial_fd, serial_rx, frames,
                    client_fd, prev_fd, thr >>

InitPa ==
    /\ InitKernel /\ InitProgram /\ pc = "accept" /\ tap = {1}
    /\ serial_fd = NoFd /\ cap_live = FALSE /\ Untracked

NextPa ==
    \/ Connect(MaxConn)
    \/ \E c \in Sessions : Disconnect(c)
    \/ P_Accept
    \/ P_ClosePrev
    \/ P_Spawn
    \/ \E s \in Sessions : P_Read(s)
    \/ \E s \in Sessions : P_Send(s)
    \/ \E s \in Sessions : P_Close(s)

SpecPa == InitPa /\ [][NextPa]_vars

\* the PortAudio server from the start of its setup
InitPaBoot ==
    /\ InitKernel /\ InitThreads /\ pc = "painit" /\ tap = {}
    /\ cap_live = FALSE /\ Untracked
    /\ cap_state = "unopened"
    /\ serial_fd = NoFd
    /\ argv = << >>
    /\ serial = << >>
    /\ baudrate = 0

NextPaBoot == P_Startup \/ NextPa

SpecPaBoot == InitPaBoot /\ [][NextPaBoot]_vars

(***************************************************************************)
(* ALSA audio server: handle_client, src/audio_stream/server.cpp:28-82.    *)
(* Positions of a client thread: "loop" (lines 38-40), "read" (inside      *)
(* snd_pcm_readi, line 42), "send" (line 68), "close" (line 80), "done".   *)
(***************************************************************************)
\* lines 38-40: while (running)
A_Loop(s) ==
    /\ ~ProcessEnded
    /\ h_pc[s] = "loop"
    /\ Goto(s, IF running THEN "read" ELSE "close")
    /\ UNCHANGED << kern, hist, glob, snap, frames, mainv, client_socket,
                    buffer, aud >>

\* A_Read with a short read resetting the retry counter
A_Read_ShortResets(s) ==
    /\ ~ProcessEnded
    /\ h_pc[s] = "read"
    /\ \/ /\ retries' = [retries EXCEPT ![s] = @ + 1]
          /\ Goto(s, IF retries[s] + 1 >= max_retries THEN "close"
                                                      ELSE "loop")
          /\ UNCHANGED << frames, unit >>
       \/ /\ Goto(s, "loop")
          /\ retries' = [retries EXCEPT ![s] = 0]
          /\ UNCHANGED << frames, unit >>
       \/ /\ CanCapture
          /\ frames' = Counted(frames)
          /\ TakeUnit(s)
          /\ retries' = [retries EXCEPT ![s] = 0]
          /\ Goto(s, "send")
    /\ UNCHANGED << kern, tap, stream, cap_live, last, sigv, boot,
                    exit_status, glob, snap, mainv, client_socket,
                    buffer, nbytes, joinable, cleaned_up >>

\* lines 42-65: snd_pcm_readi returns an error (overrun or other), a short
\* count, or a full block
A_Read(s) ==
    /\ ~ProcessEnded
    /\ h_pc[s] = "read"
    /\ \/ /\ retries' = [retries EXCEPT ![s] = @ + 1]
          /\ Goto(s, IF retries[s] + 1 >= max_retries THEN "close"
                                                      ELSE "loop")
          /\ UNCHANGED << frames, unit >>
       \/ /\ Goto(s, "loop")
          /\ UNCHANGED << retries, frames, unit >>
       \/ /\ CanCapture
          /\ frames' = Counted(frames)
          /\ TakeUnit(s)
          /\ retries' = [retries EXCEPT ![s] = 0]
          /\ Goto(s, "send")
    /\ UNCHANGED << kern, tap, stream, cap_live, last, sigv, boot,
                    exit_status, glob, snap, mainv, client_socket,
                    buffer, nbytes, joinable, cleaned_up >>

\* lines 68-77: non-blocking send of one block with flags 0: a failure ends
\* the loop, EAGAIN and a short count go on to the next block.  SIGPIPE is
\* left at its default action (only SIGINT is handled, line 313), so the
\* send that raises it terminates the process.
A_Send(s) ==
    /\ ~ProcessEnded
    /\ h_pc[s] = "send"
    /\ IF SendFails(client_socket[s])
       THEN /\ \/ Goto(s, "close") /\ pc' = pc
               \/ PeerGone(client_socket[s]) /\ pc' = "killed" /\ h_pc' = h_pc
            /\ UNCHANGED << nbytes, last >>
       ELSE /\ pc' = pc
            /\ \/ /\ Goto(s, "loop")
                  /\ UNCHANGED << nbytes, last >>
               \/ /\ Goto(s, "loop")
                  /\ SendUnit(s, client_socket[s])
                  /\ \E k \in SendCounts(BlockBytes) :
                        DeliverBlock(client_socket[s], k)
    /\ IF h_pc'[s] = h_pc[s] THEN unit' = unit ELSE DropUnit(s)
    /\ UNCHANGED << kern, tap, stream, cap_live, sigv, boot, exit_status, glob, snap, frames,
                    client_fd, prev_fd, client_socket, buffer, retries,
                    joinable, cleaned_up >>

\* line 80: close(client_socket)
A_Close(s) ==
    /\ ~ProcessEnded
    /\ h_pc[s] = "close"
    /\ DoClose(client_socket[s])
    /\ Goto(s, "done")
    /\ retries' = [retries EXCEPT ![s] = 0]
    /\ UNCHANGED << nconn, pending, hist, glob, snap, frames, mainv,
                    client_socket, buffer, nbytes, joinable, cleaned_up >>

(***************************************************************************)
(* ALSA audio server: cleanup_resources, the SIGINT handler and the accept *)
(* loop of main, src/audio_stream/server.cpp:138-154, 313-354.             *)
(* Positions of main: "accept" (319-342), "join" (343), "spawn" (348-349), *)
(* "cleanup" (352), "exited", "killed".                                    *)
(***************************************************************************)
\* lines 138-154: the listening socket and the capture handle are closed
\* unless that was done before
cleanup_resources ==
    /\ cleaned_up' = TRUE
    /\ cap_state' = "closed"

\* lines 313-317: SIGINT
A_Signal ==
    /\ ~ProcessEnded
    /\ pc \notin StartupPcs  \* the handler is installed at line 313
    /\ running
    /\ running' = FALSE
    /\ cleanup_resources
    /\ UNCHANGED << kern, hist, current_client, snapshot_signal, cap_res,
                    serial_fd, serial_rx, frames, mainv, thr, nbytes,
                    retries, joinable >>

\* A_Accept finding the previous client thread joinable
A_Accept_JoinsPrevious ==
    /\ pc = "accept"
    /\ IF ~running
       THEN /\ pc' = "cleanup"
            /\ UNCHANGED << kern, client_fd, running >>
       ELSE \/ /\ ~cleaned_up
               /\ DoAccept
               /\ IF nconn >= 1
                  THEN running' = FALSE /\ pc' = "join"
                  ELSE running' = running /\ pc' = "spawn"
            \/ /\ AcceptFails
               /\ pc' = "accept"
               /\ running' = running
    /\ UNCHANGED << hist, current_client, snap, frames, prev_fd, thr, aud >>

\* lines 319-342: loop condition, non-blocking accept (which fails once the
\* listening socket is closed), test of client_thread.joinable()
A_Accept ==
    /\ pc = "accept"
    /\ IF ~running
       THEN /\ pc' = "cleanup"
            /\ UNCHANGED << kern, client_fd, running >>
       ELSE \/ /\ ~cleaned_up
               /\ DoAccept
               /\ IF joinable
                  THEN running' = FALSE /\ pc' = "join"
                  ELSE running' = running /\ pc' = "spawn"
            \/ /\ AcceptFails
               /\ pc' = "accept"
               /\ running' = running
    /\ UNCHANGED << hist, current_client, snap, frames, prev_fd, thr, aud >>

\* A_Start with the accept loop closing the previous client's socket
A_Start_ClosesPrevious ==
    /\ \/ pc = "spawn" /\ running' = running
       \/ pc = "join" /\ h_pc[nconn - 1] = "done" /\ running' = TRUE
    /\ IF nconn > 1
       THEN DoClose(client_socket[nconn - 1])
       ELSE UNCHANGED << fdtab, peer >>
    /\ h_pc' = [h_pc EXCEPT ![nconn] = "loop"]
    /\ client_socket' = [client_socket EXCEPT ![nconn] = client_fd]
    /\ joinable' = FALSE
    /\ client_fd' = NoFd
    /\ pc' = "accept"
    /\ UNCHANGED << nconn, pending, hist, current_client, snap, frames,
                    prev_fd, buffer, nbytes, retries, cleaned_up >>

\* lines 343-349: after the join of the previous thread (if one was
\* joinable) the new client thread is started and detached
A_Start ==
    /\ \/ pc = "spawn" /\ running' = running
       \/ pc = "join" /\ h_pc[nconn - 1] = "done" /\ running' = TRUE
    /\ h_pc' = [h_pc EXCEPT ![nconn] = "loop"]
    /\ client_socket' = [client_socket EXCEPT ![nconn] = client_fd]
    /\ joinable' = FALSE
    /\ client_fd' = NoFd
    /\ pc' = "accept"
    /\ UNCHANGED << kern, hist, current_client, snap, frames, prev_fd,
                    buffer, nbytes, retries, cleaned_up >>

\* thread t is not suspended in the signal handler
Runs(t) == ~(sig_thread = t /\ sig_pc \in {"test", "body"})

\* the session thread that is running, if there is one
LiveThreads == { s \in Sessions : h_pc[s] \notin {"idle", "done"} }

\* line 314: SIGINT is delivered to thread t, which enters the handler
A_SigEnter(t) ==
    /\ ~ProcessEnded
    /\ pc \notin StartupPcs
    /\ sig_pc = "none"
    /\ running
    /\ t \in {MainThread} \cup LiveThreads
    /\ running' = FALSE
    /\ sig_pc' = "test"
    /\ sig_thread' = t
    /\ UNCHANGED << kern, tap, stream, cap_live, ord, boot, exit_status,
                    current_client, snap, frames, mainv, thr, aud >>

\* line 139, called from line 316: the handler tests cleaned_up
A_SigTest ==
    /\ ~ProcessEnded
    /\ sig_pc = "test"
    /\ sig_pc' = IF cleaned_up THEN "done" ELSE "body"
    /\ UNCHANGED << kern, tap, stream, cap_live, ord, boot, exit_status, sig_thread,
                    glob, snap, frames, mainv, thr, aud >>

\* lines 140-152, called from line 316: the handler runs the body
A_SigBody ==
    /\ ~ProcessEnded
    /\ sig_pc = "body"
    /\ cleanup_resources
    /\ sig_pc' = "done"
    /\ UNCHANGED << kern, tap, stream, cap_live, ord, boot, exit_status, sig_thread,
                    glob, snapshot_signal, cap_res, serial_fd, serial_rx,
                    frames, mainv, thr, nbytes, retries, joinable >>

\* line 139, called from line 352: main tests cleaned_up; lines 353-354
\* when the body is skipped
A_CleanupTest ==
    /\ pc = "cleanup"
    /\ IF cleaned_up
       THEN ExitWith(ExitOk)
       ELSE pc' = "cleanbody" /\ UNCHANGED exit_status
    /\ UNCHANGED << kern, tap, stream, cap_live, ord, sigv, boot, glob, snap,
                    frames, client_fd, prev_fd, thr, aud >>

\* lines 140-152, called from line 352, and lines 353-354
A_CleanupBody ==
    /\ pc = "cleanbody"
    /\ cleanup_resources
    /\ ExitWith(ExitOk)
    /\ UNCHANGED << kern, tap, stream, cap_live, ord, sigv, boot, glob,
                    snapshot_signal, cap_res, serial_fd, serial_rx, frames,
                    client_fd, prev_fd, thr, nbytes, retries, joinable >>

\* lines 352-354: cleanup_resources, return from main
A_Exit ==
    /\ pc = "cleanup"
    /\ cleanup_resources
    /\ exit_status' = ExitOk
    /\ pc' = "exited"
    /\ UNCHANGED << kern, tap, stream, cap_live, ord, sigv, boot, glob, snapshot_signal,
                    cap_res, serial_fd, serial_rx, frames, client_fd, prev_fd,
                    thr, nbytes, retries, joinable >>

\* lines 205-209: snd_pcm_open; a failure returns 1
A_OpenCapture ==
    /\ pc = "opencap"
    /\ \/ /\ cap_state' = "open"
          /\ pc' = "hwparams"
          /\ UNCHANGED exit_status
       \/ /\ cap_state' = cap_state
          /\ ExitWith(AlsaFailure)
    /\ UNCHANGED << aud, kern, tap, stream, cap_live, ord, sigv, boot, glob,
                    snapshot_signal, cap_res, serial_fd, serial_rx, frames,
                    client_fd, prev_fd, thr >>

\* the position after a step of the ALSA server's setup
A_AfterSetup(p) ==
    CASE p = "hwparams" -> "prepare"
      [] p = "prepare" -> "socket"
      [] p = "socket" -> "sockopt"
      [] p = "sockopt" -> "bind"
      [] p = "bind" -> "listen"
      [] p = "listen" -> "accept"

\* lines 214-308: the hardware parameters, snd_pcm_prepare, socket,
\* setsockopt, bind, listen; each failure calls cleanup_resources and
\* returns 1
A_Setup ==
    /\ pc \in {"hwparams", "prepare", "socket", "sockopt", "bind", "listen"}
    /\ \/ /\ pc' = A_AfterSetup(pc)
          /\ UNCHANGED << exit_status, cleaned_up, cap_state >>
       \/ /\ cleanup_resources
          /\ ExitWith(AlsaFailure)
    /\ UNCHANGED << kern, tap, stream, cap_live, ord, sigv, boot, glob, snapshot_signal,
                    cap_res, serial_fd, serial_rx, frames, client_fd, prev_fd,
                    thr, nbytes, retries, joinable >>

InitAlsa ==
    /\ InitKernel /\ InitProgram /\ pc = "accept" /\ tap = {1}
    /\ serial_fd = NoFd /\ cap_live = FALSE /\ Untracked

NextAlsa ==
    \/ Connect(MaxAlsaConn)
    \/ \E c \in Sessions : Disconnect(c)
    \/ A_Signal
    \/ A_Accept
    \/ A_Start
    \/ A_Exit
    \/ \E s \in Sessions : A_Loop(s)
    \/ \E s \in Sessions : A_Read(s)
    \/ \E s \in Sessions : A_Send(s)
    \/ \E s \in Sessions : A_Close(s)

SpecAlsa == InitAlsa /\ [][NextAlsa]_vars

\* the ALSA server with the steps of cleanup_resources interleaved: the
\* handler runs on the thread the signal is delivered to, which is
\* suspended until the handler returns
InitAlsaShutdown ==
    /\ InitKernel /\ InitProgram /\ pc = "accept" /\ tap = {}
    /\ serial_fd = NoFd /\ cap_live = FALSE /\ Untracked

NextAlsaShutdown ==
    \/ Connect(MaxAlsaConn)
    \/ \E c \in Sessions : Disconnect(c)
    \/ \E t \in {MainThread} \cup Sessions : A_SigEnter(t)
    \/ A_SigTest
    \/ A_SigBody
    \/ Runs(MainThread) /\ A_Accept
    \/ Runs(MainThread) /\ A_Start
    \/ Runs(MainThread) /\ A_CleanupTest
    \/ Runs(MainThread) /\ A_CleanupBody
    \/ \E s \in Sessions : Runs(s) /\ A_Loop(s)
    \/ \E s \in Sessions : Runs(s) /\ A_Read(s)
    \/ \E s \in Sessions : Runs(s) /\ A_Send(s)
    \/ \E s \in Sessions : Runs(s) /\ A_Close(s)

SpecAlsaShutdown == InitAlsaShutdown /\ [][NextAlsaShutdown]_vars

\* the ALSA server from the start of its setup
InitAlsaBoot ==
    /\ InitKernel /\ InitThreads /\ pc = "opencap" /\ tap = {}
    /\ cap_live = FALSE /\ Untracked
    /\ cap_state = "unopened"
    /\ serial_fd = NoFd
    /\ argv = << >>
    /\ serial = << >>
    /\ baudrate = 0

NextAlsaBoot == A_OpenCapture \/ A_Setup \/ NextAlsa

SpecAlsaBoot == InitAlsaBoot /\ [][NextAlsaBoot]_vars

\* the ALSA server with one client, every thread of which that can take a
\* step eventually takes one
AlsaMain == A_Accept \/ A_Start \/ A_Exit

AlsaThread(s) == A_Loop(s) \/ A_Read(s) \/ A_Send(s) \/ A_Close(s)

NextAlsaSession ==
    \/ Connect(1)
    \/ Disconnect(1)
    \/ A_Signal
    \/ AlsaMain
    \/ AlsaThread(1)

SpecAlsaSession ==
    /\ InitAlsa
    /\ [][NextAlsaSession]_vars
    /\ WF_vars(AlsaMain)
    /\ WF_vars(AlsaThread(1))

(***************************************************************************)
(* Properties of the audio servers.                                        *)
(***************************************************************************)
\* client thread s of the ALSA server is in its streaming loop
Streaming(s) == h_pc[s] \in {"loop", "read", "send"}

\* C3: when the ALSA accept loop starts the thread of a new connection,
\* every earlier client thread has been signalled and joined, i.e. has
\* returned; so at most one client thread is in its streaming loop.
C3_PreviousJoined ==
    /\ [][(pc \in {"spawn", "join"} /\ pc' = "accept")
            => \A s \in Sessions : s < nconn => h_pc[s] = "done"]_vars
    /\ [](Cardinality({ s \in Sessions : Streaming(s) }) <= 1)

\* C4: in the PortAudio accept loop the close of the remembered previous
\* descriptor (line 333) leaves the connection just accepted open, also
\* after the previous session ended on its own.
C4_ClosePrevSparesNew ==
    [][(pc = "closeprev" /\ pc' = "spawn")
          => ConnOf(fdtab', client_fd) = nconn]_vars

\* C5: a send of a PortAudio handler that returns >= 0 delivers its block
\* on the connection the handler was started for, never on a later one.
C5_NoBlockToLaterClient ==
    [][\A s \in Sessions :
          (h_pc[s] = "send" /\ h_pc'[s] = "read")
              => ConnOf(fdtab, client_socket[s]) = s]_vars

\* C7: the number of bytes written to a connection is at every moment a
\* whole multiple of the block size, hence of the sample width.
C7_WholeBlocks ==
    \A c \in tap :
        nbytes[c] % BlockBytes = 0 /\ nbytes[c] % SampleBytes = 0

\* this step is a send of client thread s on a connection the client has
\* left: it fails, or it raises SIGPIPE
FailedSend(s) ==
    /\ h_pc[s] = "send"
    /\ PeerGone(client_socket[s])
    /\ h_pc'[s] = "close" \/ pc' = "killed"

\* C16: in the ALSA server a send that fails because the client has
\* disconnected ends only that client's thread: the thread goes on to close
\* its socket, the process and its accept loop keep running and no other
\* thread is affected.
C16_DisconnectEndsOnlySession ==
    [][\A s \in Sessions :
          FailedSend(s) => /\ h_pc'[s] = "close"
                           /\ pc' = pc
                           /\ \A t \in Sessions \ {s} : h_pc'[t] = h_pc[t]]_vars

\* this step is the return of snd_pcm_readi in client thread s
ReadReturns(s) == h_pc[s] = "read" /\ h_pc'[s] # "read"

\* C17: the retry counter of a session stays in 0..max_retries; a full read
\* resets it to 0; a read after which the loop goes on leaves it or adds
\* one to it and keeps it below max_retries; and a read ends the session
\* exactly when it is the failed read that takes the counter to
\* max_retries.
C17_RetryBudget ==
    /\ [](\A s \in Sessions : retries[s] \in 0..max_retries)
    /\ [][\A s \in Sessions : ReadReturns(s) =>
            /\ h_pc'[s] = "send" => retries'[s] = 0
            /\ h_pc'[s] = "loop"
                  => /\ retries'[s] \in {retries[s], retries[s] + 1}
                     /\ retries'[s] < max_retries
            /\ h_pc'[s] = "close"
                  => /\ retries[s] = max_retries - 1
                     /\ retries'[s] = max_retries
            /\ retries'[s] = max_retries => h_pc'[s] = "close"]_vars

\* C17 witness: the only session, which had been sent a block, has ended on
\* its fifth failed read in a row while the server keeps running
C17_Witness ==
    /\ running
    /\ nconn = 1
    /\ frames >= 1
    /\ h_pc[1] = "close"
    /\ retries[1] = max_retries

\* the byte counts a connection can have been sent
ByteCounts == { k * (BlockBytes \div 2) : k \in 0..(2 * MaxFrames) }

\* C18: no error is retried indefinitely: a client thread that is in its
\* streaming loop eventually sends a block (the byte count of its
\* connection changes) or leaves the loop, after which it closes its
\* socket, unless the process ends first.
C18_NoEndlessRetry ==
    \A n \in ByteCounts :
        []((Streaming(ClientA) /\ nbytes[ClientA] = n)
             => <>(nbytes[ClientA] # n \/ ~Streaming(ClientA) \/ ProcessEnded))


(***************************************************************************)
(* Startup.                                                                *)
(***************************************************************************)
FailureStatus == {ExitFailure, ExitAbort, AlsaFailure}

NothingServed == nconn = 0 /\ \A s \in Sessions : h_pc[s] = "idle"

\* C21: a failure to open the capture device or to create, bind or listen
\* on the server socket is fatal.  During startup no connection has been
\* accepted and no forwarding thread started; main leaves startup for its
\* accept loop only with the capture device open (so a failed open, after
\* which the device is not open, never gets there); and a startup step
\* after the option parsing that ends the process ends it with a failure
\* status, nothing accepted and no thread started.
C21_StartupFailureFatal ==
    /\ [](pc \in StartupPcs => NothingServed)
    /\ [][(pc \in StartupPcs /\ pc' \notin StartupPcs \cup {"exited"})
            => cap_state' = "open"]_vars
    /\ [][(pc \in StartupPcs \ {"args"} /\ pc' = "exited")
            => (exit_status' \in FailureStatus /\ NothingServed')]_vars

\* the socket setup failed after the capture device was opened and the
\* serial reader started
C21_Witness ==
    /\ pc = "exited"
    /\ cap_state = "open"
    /\ serial_fd >= 0
    /\ exit_status = ExitAbort
    /\ NothingServed

\* the string is not a decimal number
NonNumeric(str) == str = << >> \/ \E i \in 1..Len(str) : ~IsDigit(str[i])

\* an unknown option, or a non-numeric value for a numeric option
BadArg(a) ==
    \/ a.opt = "bogus"
    \/ a.opt \in {"port", "baudrate"} /\ NonNumeric(a.val)

\* the process has ended at startup with the usage message and a failure
\* status, no connection accepted
Rejected ==
    /\ pc = "exited"
    /\ usage
    /\ exit_status = ExitFailure
    /\ NothingServed

\* C22: every unknown or unsupported configuration value makes the video
\* server exit at startup with a failure status after the usage message:
\* the getopt iteration that meets an unknown option or a non-numeric value
\* of a numeric option, and the step of main at lines 257-266 taken with a
\* baud rate that is not supported, end the process that way.
C22_BadConfigExits ==
    [][/\ (pc = "args" /\ argv # << >> /\ BadArg(Head(argv))) => Rejected'
       /\ (pc = "serial" /\ pc' # "serial" /\ baudrate \notin SupportedBauds)
            => Rejected']_vars

(***************************************************************************)
(* The capture source.                                                     *)
(***************************************************************************)
\* a connection is accepted, a descriptor is closed, a session thread
\* moves, or the slot of the current client is written
SessionStep ==
    \/ nconn' # nconn
    \/ fdtab' # fdtab
    \/ h_pc' # h_pc
    \/ client_socket' # client_socket
    \/ current_client' # current_client

\* C23: the capture source is opened once, at startup, and accepting,
\* superseding or ending a session never opens, closes or re-opens it:
\* its state changes only when main opens it at startup, when a failed
\* startup or main's shutdown code ends the process, or when the ALSA
\* server's signal handler shuts down; no step of a session changes it and
\* it is never opened again.
C23_CaptureOpenedOnce ==
    /\ [][SessionStep => cap_state' = cap_state]_vars
    /\ [][cap_state' # cap_state =>
            \/ pc = "opencap" /\ cap_state = "unopened" /\ cap_state' = "open"
            \/ cap_state = "open" /\ cap_state' = "closed"
                 /\ (pc' = "exited" \/ (running /\ ~running'))]_vars

\* a second session has replaced the first, which has ended, and the
\* capture source opened at startup is still open
C23_Witness ==
    /\ pc = "poll"
    /\ nconn = ClientB
    /\ h_pc[ClientA] = "done"
    /\ h_pc[ClientB] \notin {"idle", "done"}
    /\ running
    /\ cap_state = "open"
    /\ cap_live = FALSE /\ tap = {}

(***************************************************************************)
(* The serial reader.                                                      *)
(***************************************************************************)
\* the serial reader reads the byte that is waiting
SerialReads == serial_rx # NoByte /\ serial_rx' = NoByte

\* C24: the serial reader sets the snapshot flag exactly when it reads the
\* byte 'S' and never clears it: a read of 'S' leaves the flag set, a read
\* of another byte leaves the flag as it was, the flag becomes set only in
\* a read of 'S' (so not in a read that returns nothing or fails, which
\* changes no state), and the flag is cleared only in a step of a
\* forwarding thread, in which the serial reader reads nothing.
C24_FlagSetOnTrigger ==
    /\ [][SerialReads =>
            snapshot_signal' = (serial_rx = TriggerByte \/ snapshot_signal)]_vars
    /\ [][(~snapshot_signal /\ snapshot_signal') =>
            (SerialReads /\ serial_rx = TriggerByte)]_vars
    /\ [][(snapshot_signal /\ ~snapshot_signal') =>
            (h_pc' # h_pc /\ serial_rx' = serial_rx)]_vars

\* the serial reader has read 'S' and set the flag, which no session has
\* consumed yet, and a byte other than 'S' is waiting to be read
C24_Witness ==
    /\ serial_fd >= 0
    /\ snapshot_signal
    /\ serial_rx \in SerialBytes \ {TriggerByte}
    /\ pc = "poll" /\ running

(***************************************************************************)
(* ALSA server: cleanup_resources.                                         *)
(***************************************************************************)
\* the body of cleanup_resources is executed, by main or by the handler
BodyRuns ==
    \/ pc = "cleanbody" /\ pc' # "cleanbody"
    \/ sig_pc = "body" /\ sig_pc' # "body"

\* C25: the body of cleanup_resources executes at most once per process:
\* the body starts by setting cleaned_up, so it is never executed when
\* cleaned_up is already set by an earlier execution.
C25_CleanupOnce == [][BodyRuns => ~cleaned_up]_vars

(***************************************************************************)
(* Closing of client sockets.                                              *)
(***************************************************************************)
\* C26: in the PortAudio server every close of a client socket acts on the
\* open socket of the connection it is meant for, so that no connection is
\* closed twice and no closed descriptor is closed: the handler's close
\* (line 81) finds its descriptor naming its own connection, and the accept
\* loop's close (line 333) finds current_client naming the connection
\* accepted before the new one.
C26_ClientClosedOnce ==
    [][/\ \A s \in Sessions :
            (h_pc[s] = "close" /\ h_pc'[s] = "done")
                => ConnOf(fdtab, client_socket[s]) = s
       /\ (pc = "closeprev" /\ pc' = "spawn" /\ current_client # NoFd)
                => ConnOf(fdtab, current_client) = nconn - 1]_vars

\* some open descriptor is closed in this step
ClosesSocket == \E fd \in 1..MaxFd : fdtab[fd] # NoConn /\ fdtab'[fd] = NoConn

\* session s leaves its loop and closes its socket in this step
HandlerCloses(s) == h_pc[s] = "close" /\ h_pc'[s] = "done"

\* C27: in the ALSA server a client socket is closed only by its own
\* handler thread, exactly once, when that thread leaves its loop: every
\* step that closes a descriptor is the close of a handler, which closes
\* the open socket of its own connection and nothing else, and a handler
\* that has returned has left its connection closed.  The accept loop and
\* cleanup_resources take no such step.
C27_ClosedByOwnHandler ==
    /\ [][ClosesSocket =>
            \E s \in Sessions :
                /\ HandlerCloses(s)
                /\ fdtab' = CloseFd(fdtab, client_socket[s])]_vars
    /\ [][\A s \in Sessions :
            HandlerCloses(s) => ConnOf(fdtab, client_socket[s]) = s]_vars
    /\ [](\A s \in Sessions :
            h_pc[s] = "done" => \A fd \in 1..MaxFd : fdtab[fd] # s)

\* the first handler has left its loop and closed its socket, and the
\* descriptor number now names the second connection, whose handler runs
C27_Witness ==
    /\ h_pc[1] = "done"
    /\ h_pc[2] = "loop"
    /\ ConnOf(fdtab, client_socket[1]) = 2
    /\ client_socket[2] = client_socket[1]
    /\ pc = "accept"
    /\ ~cleaned_up

\* C28: in the video server the accept loop's close(current_client) at
\* line 336 never closes the connection accepted in the same iteration:
\* when line 336 runs, current_client is not the descriptor accept has
\* just returned.
C28_CloseSparesAccepted ==
    [][(pc = "closeprev" /\ pc' = "clearprev") => current_client # client_fd]_vars

\* session s has a forwarding thread that has not returned
Serves(s) == h_pc[s] \notin {"idle", "done"}

\* C29: in the video server, whenever the accept loop waits in poll,
\* current_client is -1 or the descriptor of an open connection whose
\* forwarding thread exists and has not returned; so no forwarding thread
\* terminates leaving current_client naming a descriptor nobody serves.
C29_CurrentClientServed ==
    pc = "poll" =>
        \/ current_client = NoFd
        \/ \E s \in Sessions :
              /\ Serves(s)
              /\ client_socket[s] = current_client
              /\ ConnOf(fdtab, current_client) = s

Reading(s) == h_pc[s] \in {"read", "snapread"}

\* C31: no forwarding thread reads from the capture source after it has
\* been closed or released: while the process lives and the source is
\* closed, no thread has a read issued or in progress.
C31_NoReadAfterRelease ==
    (cap_state = "closed" /\ ~ProcessEnded)
        => \A s \in Sessions : ~Reading(s)
(***************************************************************************)
(* Order of the units on a connection.                                     *)
(***************************************************************************)
\* the servers with the captured units numbered
InitVideoOrder ==
    /\ InitKernel /\ InitProgram /\ pc = "poll" /\ tap = {} /\ serial_fd = NoFd
    /\ cap_live = FALSE /\ Tracked

InitPaOrder ==
    /\ InitKernel /\ InitProgram /\ pc = "accept" /\ tap = {}
    /\ serial_fd = NoFd /\ cap_live = FALSE /\ Tracked

InitAlsaOrder ==
    /\ InitKernel /\ InitProgram /\ pc = "accept" /\ tap = {}
    /\ serial_fd = NoFd /\ cap_live = FALSE /\ Tracked

SpecVideoOrder == InitVideoOrder /\ [][NextVideo]_vars

SpecPaOrder == InitPaOrder /\ [][NextPa]_vars

SpecAlsaOrder == InitAlsaOrder /\ [][NextAlsa]_vars

\* thread s completes the send of the unit it holds, on connection c
Sends(s, c) ==
    /\ unit[s] # 0
    /\ unit'[s] = 0
    /\ c = ConnOf(fdtab, client_socket[s])
    /\ last'[c] = unit[s]

\* C32: in every server the units sent on one connection are sent in
\* capture order and none is sent twice: whenever a forwarding thread
\* sends a unit on a connection, that unit was captured after every unit
\* sent on the connection before.
C32_UnitsInCaptureOrder ==
    [][\A s \in Sessions : \A c \in Sessions :
          Sends(s, c) => unit[s] > last[c]]_vars
(***************************************************************************)
(* Clearing of the snapshot flag.                                          *)
(***************************************************************************)
\* lines 65-74: the snapshot branch of thread s reads a frame while the
\* capture source is set to the snapshot resolution
SnapshotTaken(s) ==
    /\ h_pc[s] = "snapread"
    /\ h_pc'[s] = "sendsize"
    /\ cap_res = "snap"

\* C33: the snapshot flag goes from true to false only in a step in which
\* a forwarding iteration has read a frame at the snapshot resolution; no
\* other step (a failed snapshot read, accepting, superseding or ending a
\* session, a step taken while no client is connected) clears it.
C33_FlagClearedBySnapshotRead ==
    [][(snapshot_signal /\ ~snapshot_signal')
          => \E s \in Sessions : SnapshotTaken(s)]_vars
=============================================================================
